---- MODULE Spec2Model ----
(***************************************************************************)
(* Express Entry Monitor: validation, comparison, storage, scraper retry   *)
(* loop and the runMonitor orchestration, as a state machine.              *)
(*                                                                         *)
(* JavaScript values are tagged records.  A string is a sequence of        *)
(* one-character strings, a number n is kept as x2 = 2*n so that the       *)
(* half-integers (1.5 is x2 = 3) are representable next to the integers.   *)
(***************************************************************************)
EXTENDS Integers, Sequences, FiniteSets, TLC

VARIABLES
    engine,            \* Date.parse flavour of the JavaScript runtime
    envs,              \* what an acquisition attempt may meet
    file,              \* content at config.storage.dataFilePath
    tmp,               \* content at dataFilePath + ".tmp"
    dir,               \* whether dirname(dataFilePath) exists
    pc,                \* position of the current runMonitor call
    run,               \* number of runMonitor calls started so far
    fileAtStart,       \* content of the final location when the run started
    previousData,      \* runMonitor: const previousData
    currentData,       \* runMonitor: const currentData
    comparisonResult,  \* runMonitor: const comparisonResult
    attempt,           \* scrapeHealthcareRound: loop variable
    sleeps,            \* scrapeHealthcareRound: backoff delays slept so far
    lastError,         \* scrapeHealthcareRound: let lastError
    browserOpen,       \* attemptScrape: browser sessions not yet closed
    stderr,            \* what attemptScrape has written with console.error
    notifyOutcome,     \* what the fetch to ntfy.sh did in this run
    log,               \* what the run has logged and called, in order
    call,              \* one call of a pure function: its input and result
    writers,           \* concurrent writeStoredData calls: position, data, open file
    doneDate           \* history: the date of the last run that ended in Done, while
                       \* no later run has been shown another date

vars == <<engine, envs, file, tmp, dir, pc, run, fileAtStart, previousData,
          currentData, comparisonResult, attempt, sleeps, lastError,
          browserOpen, stderr, notifyOutcome, log, call, writers, doneDate>>

runVars == <<engine, envs, file, tmp, dir, pc, run, fileAtStart, previousData,
             currentData, comparisonResult, attempt, sleeps, lastError,
             browserOpen, stderr, notifyOutcome, log, writers, doneDate>>

\* the variables of a run other than the store
runVarsButStore == <<engine, envs, pc, run, fileAtStart, previousData, currentData,
                     comparisonResult, attempt, sleeps, lastError, browserOpen, stderr,
                     notifyOutcome, log, doneDate>>

-----------------------------------------------------------------------------
(* Bounds of the model *)

\* number of consecutive runMonitor calls explored
MaxRuns == 2

\* number of writeStoredData calls running at the same time
NumWriters == 2

-----------------------------------------------------------------------------
(* JavaScript values *)

Undefined == [t |-> "undefined"]
Null == [t |-> "null"]
NaN == [t |-> "number", nan |-> TRUE]
Num(n) == [t |-> "number", x2 |-> 2 * n]
Halves(k) == [t |-> "number", x2 |-> k]
Str(s) == [t |-> "string", chars |-> s]
Obj(d, i, c) == [t |-> "object", date |-> d, invitations |-> i, crsScore |-> c]

\* typeof v
TypeOf(v) == IF v.t = "null" THEN "object" ELSE v.t

IsNaNValue(v) == v.t = "number" /\ "nan" \in DOMAIN v

\* !v
Falsy(v) ==
    \/ v.t \in {"undefined", "null"}
    \/ v.t = "string" /\ v.chars = <<>>
    \/ v.t = "number" /\ (IsNaNValue(v) \/ v.x2 = 0)

\* v.name, for v neither null nor undefined (those throw a TypeError)
GetProp(v, name) == IF v.t = "object" THEN v[name] ELSE Undefined

DigitChars == <<"0", "1", "2", "3", "4", "5", "6", "7", "8", "9">>

IsDigit(c) == \E i \in 1..10 : DigitChars[i] = c

DigitVal(c) == (CHOOSE i \in 1..10 : DigitChars[i] = c) - 1

\* String(n).padStart(2, '0') for 0 <= n <= 99
Pad2(n) == <<DigitChars[(n \div 10) + 1], DigitChars[(n % 10) + 1]>>

\* String(year) for 1000 <= year <= 9999
Year4(y) ==
    <<DigitChars[(y \div 1000) + 1], DigitChars[((y \div 100) % 10) + 1],
      DigitChars[((y \div 10) % 10) + 1], DigitChars[(y % 10) + 1]>>

\* `${year}-${month}-${day}`
IsoText(y, m, d) == Year4(y) \o <<"-">> \o Pad2(m) \o <<"-">> \o Pad2(d)

-----------------------------------------------------------------------------
(* validation.ts *)

IsLeapYear(y) == (y % 4 = 0 /\ y % 100 # 0) \/ y % 400 = 0

DaysInMonth(y, m) ==
    IF m = 2 THEN (IF IsLeapYear(y) THEN 29 ELSE 28)
    ELSE IF m \in {4, 6, 9, 11} THEN 30 ELSE 31

\* /^\d{4}-\d{2}-\d{2}$/.test(s)
isoDateRegex(s) ==
    /\ Len(s) = 10
    /\ \A i \in {1, 2, 3, 4, 6, 7, 9, 10} : IsDigit(s[i])
    /\ s[5] = "-"
    /\ s[8] = "-"

\* new Date(s) for s matching isoDateRegex: the UTC date, or NaN.  A day
\* past the end of its month is rejected by a strict parser ("strict") and
\* carried into the next month by a lenient one ("rollover").
DateFromISO(s, eng) ==
    LET y == 1000 * DigitVal(s[1]) + 100 * DigitVal(s[2])
             + 10 * DigitVal(s[3]) + DigitVal(s[4])
        m == 10 * DigitVal(s[6]) + DigitVal(s[7])
        d == 10 * DigitVal(s[9]) + DigitVal(s[10])
    IN  IF m \notin 1..12 \/ d \notin 1..31 THEN [nan |-> TRUE]
        ELSE IF d <= DaysInMonth(y, m) THEN [nan |-> FALSE, y |-> y, m |-> m, d |-> d]
        ELSE IF eng = "strict" THEN [nan |-> TRUE]
        ELSE IF m = 12 THEN [nan |-> FALSE, y |-> y + 1, m |-> 1, d |-> d - DaysInMonth(y, m)]
        ELSE [nan |-> FALSE, y |-> y, m |-> m + 1, d |-> d - DaysInMonth(y, m)]

isValidISODate_parseOnly(dateString) ==
    IF ~isoDateRegex(dateString) THEN FALSE
    ELSE ~DateFromISO(dateString, engine).nan

isValidISODate(dateString) ==
    IF ~isoDateRegex(dateString) THEN FALSE
    ELSE LET date == DateFromISO(dateString, engine)
             year == 1000 * DigitVal(dateString[1]) + 100 * DigitVal(dateString[2])
                     + 10 * DigitVal(dateString[3]) + DigitVal(dateString[4])
             month == 10 * DigitVal(dateString[6]) + DigitVal(dateString[7])
             day == 10 * DigitVal(dateString[9]) + DigitVal(dateString[10])
         IN  IF date.nan THEN FALSE
             ELSE date.y = year /\ date.m - 1 = month - 1 /\ date.d = day

isPositiveInteger_nonNegative(value) ==
    /\ ~IsNaNValue(value)
    /\ value.x2 % 2 = 0
    /\ value.x2 >= 0

\* Number.isInteger(value) && value > 0
isPositiveInteger(value) ==
    /\ ~IsNaNValue(value)
    /\ value.x2 % 2 = 0
    /\ value.x2 > 0

isValidInvitationData(data) ==
    IF Falsy(data) \/ TypeOf(data) # "object" THEN FALSE
    ELSE IF TypeOf(data.date) # "string" \/ ~isValidISODate(data.date.chars) THEN FALSE
    ELSE IF TypeOf(data.invitations) # "number" \/ ~isPositiveInteger(data.invitations) THEN FALSE
    ELSE IF TypeOf(data.crsScore) # "number" \/ ~isPositiveInteger(data.crsScore) THEN FALSE
    ELSE TRUE

\* what validateInvitationData does: returns, or throws an Error with message
Passes == [threw |-> FALSE]
Throws(message) == [threw |-> TRUE, message |-> message]

validateInvitationData_scoreTypeOnly(data) ==
    IF Falsy(data) \/ TypeOf(data) # "object"
    THEN Throws("InvitationData must be an object")
    ELSE IF TypeOf(data.date) # "string"
    THEN Throws("InvitationData.date must be a string")
    ELSE IF ~isValidISODate(data.date.chars)
    THEN Throws("InvitationData.date must be in ISO 8601 format (YYYY-MM-DD)")
    ELSE IF TypeOf(data.invitations) # "number"
    THEN Throws("InvitationData.invitations must be a number")
    ELSE IF ~isPositiveInteger(data.invitations)
    THEN Throws("InvitationData.invitations must be a positive integer")
    ELSE IF TypeOf(data.crsScore) # "number"
    THEN Throws("InvitationData.crsScore must be a number")
    ELSE Passes

validateInvitationData(data) ==
    IF Falsy(data) \/ TypeOf(data) # "object"
    THEN Throws("InvitationData must be an object")
    ELSE IF TypeOf(data.date) # "string"
    THEN Throws("InvitationData.date must be a string")
    ELSE IF ~isValidISODate(data.date.chars)
    THEN Throws("InvitationData.date must be in ISO 8601 format (YYYY-MM-DD)")
    ELSE IF TypeOf(data.invitations) # "number"
    THEN Throws("InvitationData.invitations must be a number")
    ELSE IF ~isPositiveInteger(data.invitations)
    THEN Throws("InvitationData.invitations must be a positive integer")
    ELSE IF TypeOf(data.crsScore) # "number"
    THEN Throws("InvitationData.crsScore must be a number")
    ELSE IF ~isPositiveInteger(data.crsScore)
    THEN Throws("InvitationData.crsScore must be a positive integer")
    ELSE Passes

-----------------------------------------------------------------------------
(* comparison.ts *)

Threw(msg) == [threw |-> TRUE, message |-> msg]

compareData_allFields(previous, current) ==
    IF Falsy(current) \/ Falsy(GetProp(current, "date"))
    THEN Threw("Comparison failed: Invalid current data: missing date field")
    ELSE IF previous = Null
    THEN [threw |-> FALSE, hasChanged |-> TRUE, previous |-> Null, current |-> current]
    ELSE IF previous.t = "undefined"
    THEN Threw("Comparison failed: TypeError")
    ELSE IF Falsy(GetProp(previous, "date"))
    THEN Threw("Comparison failed: Invalid previous data: missing date field")
    ELSE [threw |-> FALSE,
          hasChanged |-> previous # current,
          previous |-> previous, current |-> current]

compareData(previous, current) ==
    IF Falsy(current) \/ Falsy(GetProp(current, "date"))
    THEN Threw("Comparison failed: Invalid current data: missing date field")
    ELSE IF previous = Null
    THEN [threw |-> FALSE, hasChanged |-> TRUE, previous |-> Null, current |-> current]
    ELSE IF previous.t = "undefined"
    THEN Threw("Comparison failed: TypeError")
    ELSE IF Falsy(GetProp(previous, "date"))
    THEN Threw("Comparison failed: Invalid previous data: missing date field")
    ELSE [threw |-> FALSE,
          hasChanged |-> GetProp(previous, "date") # GetProp(current, "date"),
          previous |-> previous, current |-> current]

-----------------------------------------------------------------------------
(* Files and JSON text.  A text is a sequence of tokens; a partially written *)
(* text is a proper prefix of the full one.                                  *)

Absent == [exists |-> FALSE, content |-> <<>>]
File(c) == [exists |-> TRUE, content |-> c]

LBrace == [t |-> "{"]
RBrace == [t |-> "}"]
Key(name) == [t |-> "key", name |-> name]
Junk == [t |-> "junk"]

IsJsonScalar(tok) ==
    \/ tok.t \in {"null", "string"}
    \/ tok.t = "number" /\ ~IsNaNValue(tok)

\* one "name": value member; undefined members are left out, NaN becomes null
JsonMember(name, v) ==
    IF v.t = "undefined" THEN <<>>
    ELSE <<Key(name), IF IsNaNValue(v) THEN Null ELSE v>>

JSONstringify_dropsScore(data) ==
    IF data.t = "object"
    THEN <<LBrace>> \o JsonMember("date", data.date)
         \o JsonMember("invitations", data.invitations) \o <<RBrace>>
    ELSE <<IF IsNaNValue(data) THEN Null ELSE data>>

\* JSON.stringify(data, null, 2)
JSONstringify(data) ==
    IF data.t = "object"
    THEN <<LBrace>> \o JsonMember("date", data.date)
         \o JsonMember("invitations", data.invitations)
         \o JsonMember("crsScore", data.crsScore) \o <<RBrace>>
    ELSE <<IF IsNaNValue(data) THEN Null ELSE data>>

\* the value of member `name` among the members `inner` (the last one wins)
MemberValue(inner, name) ==
    LET hits == {j \in 1..(Len(inner) \div 2) : inner[2 * j - 1].name = name}
    IN  IF hits = {} THEN Undefined
        ELSE inner[2 * (CHOOSE j \in hits : \A k \in hits : k <= j)]

\* JSON.parse(text): [syntaxError |-> TRUE] or the value
JSONparse(text) ==
    IF Len(text) = 1 /\ IsJsonScalar(text[1])
    THEN [syntaxError |-> FALSE, value |-> text[1]]
    ELSE IF /\ Len(text) >= 2
            /\ text[1] = LBrace
            /\ text[Len(text)] = RBrace
            /\ Len(text) % 2 = 0
            /\ \A j \in 1..((Len(text) - 2) \div 2) :
                  /\ text[2 * j].t = "key"
                  /\ IsJsonScalar(text[2 * j + 1])
    THEN LET inner == SubSeq(text, 2, Len(text) - 1)
         IN  [syntaxError |-> FALSE,
              value |-> Obj(MemberValue(inner, "date"),
                            MemberValue(inner, "invitations"),
                            MemberValue(inner, "crsScore"))]
    ELSE [syntaxError |-> TRUE]

-----------------------------------------------------------------------------
(* storage.ts: readStoredData *)

Returned(v, logged) == [raised |-> FALSE, value |-> v, logged |-> logged]
Raised(err) == [raised |-> TRUE, err |-> err, logged |-> <<>>]

\* the try block: what it returns, or the error it throws
readStoredData_try(f, ioError) ==
    IF ~f.exists THEN Raised("ENOENT")
    ELSE IF ioError THEN Raised("EACCES")
    ELSE LET parsed == JSONparse(f.content)
         IN  IF parsed.syntaxError THEN Raised("SyntaxError")
             ELSE LET data == parsed.value
                  IN  IF data.t \in {"null", "undefined"} THEN Raised("TypeError")
                      ELSE IF \/ Falsy(GetProp(data, "date"))
                              \/ TypeOf(GetProp(data, "invitations")) # "number"
                              \/ TypeOf(GetProp(data, "crsScore")) # "number"
                      THEN Returned(Null, <<"logError: Invalid data structure in storage file">>)
                      ELSE Returned(data, <<>>)

readStoredData_catch_rethrows(err) ==
    IF err = "ENOENT" THEN Returned(Null, <<>>)
    ELSE IF err = "SyntaxError"
    THEN Returned(Null, <<"logError: Failed to parse JSON from storage file">>)
    ELSE Raised(err)

\* the catch block
readStoredData_catch(err) ==
    IF err = "ENOENT" THEN Returned(Null, <<>>)
    ELSE IF err = "SyntaxError"
    THEN Returned(Null, <<"logError: Failed to parse JSON from storage file">>)
    ELSE Returned(Null, <<"logError: Error reading stored data">>)

readStoredData(f, ioError) ==
    LET r == readStoredData_try(f, ioError)
    IN  IF r.raised THEN readStoredData_catch(r.err) ELSE r

-----------------------------------------------------------------------------
(* config.ts *)

\* config.scraper.retries
retries == 3

\* config.scraper.retryDelay
retryDelay == 1000

-----------------------------------------------------------------------------
(* scraper.ts *)

MonthNames == <<"January", "February", "March", "April", "May", "June", "July",
                "August", "September", "October", "November", "December">>

\* s.trim(), and the removal of every "," when commas is TRUE
Strip(s, commas) ==
    LET lead == IF \E i \in 1..Len(s) : s[i] # " "
                THEN CHOOSE i \in 1..Len(s) : s[i] # " " /\ \A j \in 1..(i - 1) : s[j] = " "
                ELSE Len(s) + 1
        last == IF \E i \in 1..Len(s) : s[i] # " "
                THEN CHOOSE i \in 1..Len(s) : s[i] # " " /\ \A j \in (i + 1)..Len(s) : s[j] = " "
                ELSE Len(s)
        trimmed == SubSeq(s, lead, last)
    IN  IF commas THEN SelectSeq(trimmed, LAMBDA c : c # ",") ELSE trimmed

RECURSIVE DigitsValue(_)
DigitsValue(ds) ==
    IF ds = <<>> THEN 0
    ELSE 10 * DigitsValue(SubSeq(ds, 1, Len(ds) - 1)) + DigitVal(ds[Len(ds)])

\* parseInt(s, 10) of a trimmed text: an optional sign, then the leading
\* digits; NaN when there is none
parseInt(s) ==
    LET signed == Len(s) >= 1 /\ s[1] \in {"-", "+"}
        body == IF signed THEN Tail(s) ELSE s
        n == IF \E i \in 1..Len(body) : ~IsDigit(body[i])
             THEN (CHOOSE i \in 1..Len(body) :
                      ~IsDigit(body[i]) /\ \A j \in 1..(i - 1) : IsDigit(body[j])) - 1
             ELSE Len(body)
        magnitude == DigitsValue(SubSeq(body, 1, n))
    IN  IF n = 0 THEN NaN
        ELSE IF signed /\ s[1] = "-" THEN Num(0 - magnitude) ELSE Num(magnitude)

\* new Date(dateStr) for the long form "Month D, YYYY": local midnight of
\* that day; a day of 1..31 past the end of its month is carried into the
\* next month; anything else is an Invalid Date
DateFromLongForm(s) ==
    LET shape1 == /\ Len(s) = 9
                  /\ \E k \in 1..12 : MonthNames[k] = s[1]
                  /\ s[2] = " " /\ IsDigit(s[3]) /\ s[4] = "," /\ s[5] = " "
                  /\ \A i \in 6..9 : IsDigit(s[i])
        shape2 == /\ Len(s) = 10
                  /\ \E k \in 1..12 : MonthNames[k] = s[1]
                  /\ s[2] = " " /\ IsDigit(s[3]) /\ IsDigit(s[4])
                  /\ s[5] = "," /\ s[6] = " "
                  /\ \A i \in 7..10 : IsDigit(s[i])
    IN  IF ~(shape1 \/ shape2) THEN [nan |-> TRUE]
        ELSE LET m == CHOOSE k \in 1..12 : MonthNames[k] = s[1]
                 d == IF shape1 THEN DigitVal(s[3]) ELSE DigitsValue(SubSeq(s, 3, 4))
                 y == DigitsValue(SubSeq(s, Len(s) - 3, Len(s)))
             IN  IF d \notin 1..31 \/ y < 1000 THEN [nan |-> TRUE]
                 ELSE IF d <= DaysInMonth(y, m)
                 THEN [nan |-> FALSE, y |-> y, m |-> m, d |-> d]
                 ELSE IF m = 12
                 THEN [nan |-> FALSE, y |-> y + 1, m |-> 1, d |-> d - DaysInMonth(y, m)]
                 ELSE [nan |-> FALSE, y |-> y, m |-> m + 1, d |-> d - DaysInMonth(y, m)]

Failed(msg) == [ok |-> FALSE, error |-> msg]
Succeeded(data) == [ok |-> TRUE, data |-> data]

parseDateToISO(dateStr) ==
    LET date == DateFromLongForm(dateStr)
    IN  IF date.nan THEN Failed("Invalid date format")
        ELSE Succeeded(Str(IsoText(date.y, date.m, date.d)))

\* cells[i]?.textContent() with i counted from 0
CellText(page, i) == IF i + 1 <= Len(page.cells) THEN page.cells[i + 1] ELSE Undefined

\* a page is [table |-> whether a table shows up, cells |-> the texts of the
\* first row's cells]
extractInvitationData(page) ==
    IF ~page.table THEN Failed("Table element not found on page")
    ELSE IF Len(page.cells) < 3 THEN Failed("Insufficient data cells in the first result row")
    ELSE LET dateText == CellText(page, 1)
             invitationsText == CellText(page, 3)
             crsScoreText == CellText(page, 4)
         IN  IF Falsy(dateText) \/ Falsy(invitationsText) \/ Falsy(crsScoreText)
             THEN Failed("Data extraction failed: Missing data in result cells")
             ELSE LET date == parseDateToISO(Strip(dateText.chars, FALSE))
                      invitations == parseInt(Strip(invitationsText.chars, TRUE))
                      crsScore == parseInt(Strip(crsScoreText.chars, FALSE))
                  IN  IF ~date.ok THEN Failed("Data extraction failed: Invalid date format")
                      ELSE IF IsNaNValue(invitations) \/ IsNaNValue(crsScore)
                      THEN Failed("Data extraction failed: Failed to parse numeric values")
                      ELSE Succeeded(Obj(date.data, invitations, crsScore))

attemptScrape_noCleanup(env) ==
    IF env.fails = "launch"
    THEN [ok |-> FALSE, error |-> "Failed to initialize Playwright browser", leaked |-> FALSE,
          reported |-> FALSE]
    ELSE LET body ==
                 IF env.fails = "goto" THEN Failed("Network error navigating")
                 ELSE IF env.fails = "filter" THEN Failed("Filter input not found or not interactable")
                 ELSE LET data == extractInvitationData(env.page)
                      IN  IF ~data.ok THEN data
                          ELSE IF ~env.closeOk THEN Failed("browser.close failed")
                          ELSE data
         IN  IF body.ok
             THEN [ok |-> TRUE, data |-> body.data, leaked |-> FALSE, reported |-> FALSE]
             ELSE [ok |-> FALSE, error |-> body.error, leaked |-> TRUE, reported |-> FALSE]

\* One attempt against the environment env:
\*   env.fails      the first step that fails: "launch", "goto", "filter" or "none"
\*   env.page       the page the extraction sees
\*   env.closeOk    whether browser.close() of the try block succeeds
\*   env.cleanupOk  whether browser.close() of the catch block succeeds
\* The result says whether the browser was left open (leaked) and whether
\* console.error('Failed to close browser:') was called (reported).
attemptScrape(env) ==
    IF env.fails = "launch"
    THEN [ok |-> FALSE, error |-> "Failed to initialize Playwright browser", leaked |-> FALSE,
          reported |-> FALSE]
    ELSE LET body ==
                 IF env.fails = "goto" THEN Failed("Network error navigating")
                 ELSE IF env.fails = "filter" THEN Failed("Filter input not found or not interactable")
                 ELSE LET data == extractInvitationData(env.page)
                      IN  IF ~data.ok THEN data
                          ELSE IF ~env.closeOk THEN Failed("browser.close failed")
                          ELSE data
         IN  IF body.ok
             THEN [ok |-> TRUE, data |-> body.data, leaked |-> FALSE, reported |-> FALSE]
             ELSE [ok |-> FALSE, error |-> body.error, leaked |-> ~env.cleanupOk,
                   reported |-> ~env.cleanupOk]

-----------------------------------------------------------------------------
(* The environment: runtimes, persisted files and source pages explored *)

Engines == {"strict", "rollover"}

Jan14 == <<"2", "0", "2", "4", "-", "0", "1", "-", "1", "4">>
Jan15 == <<"2", "0", "2", "4", "-", "0", "1", "-", "1", "5">>
Feb30 == <<"2", "0", "2", "4", "-", "0", "2", "-", "3", "0">>

\* what the final location may hold before the first run: nothing, text
\* that is not JSON, JSON that is no record, a record missing fields,
\* well-formed entries, and records that are no valid entry
InitialFiles ==
    {Absent,
     File(<<Junk>>),
     File(<<Null>>),
     File(JSONstringify(Obj(Str(Jan15), Undefined, Undefined))),
     File(JSONstringify(Obj(Str(Jan14), Num(100), Num(400)))),
     File(JSONstringify(Obj(Str(Jan15), Num(100), Num(400)))),
     File(JSONstringify(Obj(Str(Feb30), Num(100), Num(400)))),
     File(JSONstringify(Obj(Str(Jan15), Num(0), Halves(3))))}

Row(dateText, invitationsText, crsScoreText) ==
    <<Str(<<"1">>), Str(dateText), Str(<<"H">>), Str(invitationsText), Str(crsScoreText)>>

Text_Jan15 == <<"January", " ", "1", "5", ",", " ", "2", "0", "2", "4">>
Text_Jan14 == <<"January", " ", "1", "4", ",", " ", "2", "0", "2", "4">>
Text_Feb30 == <<"February", " ", "3", "0", ",", " ", "2", "0", "2", "4">>
Text_Mar1 == <<"March", " ", "1", ",", " ", "2", "0", "2", "4">>

Page_Jan15 == [table |-> TRUE, cells |-> Row(Text_Jan15, <<"3", ",", "5", "0", "0">>, <<"4", "3", "1">>)]
Page_Jan15_other == [table |-> TRUE, cells |-> Row(Text_Jan15, <<"9", ",", "9", "9", "9">>, <<"9", "9", "9">>)]
Page_Jan14 == [table |-> TRUE, cells |-> Row(Text_Jan14, <<"1", "0", "0">>, <<"4", "0", "0">>)]
Page_Feb30 == [table |-> TRUE, cells |-> Row(Text_Feb30, <<"1", "5", "0">>, <<" ", "4", "1", "0">>)]
Page_Mar1_zero == [table |-> TRUE, cells |-> Row(Text_Mar1, <<"0">>, <<"-", "5">>)]
Page_notNumeric == [table |-> TRUE, cells |-> Row(Text_Jan15, <<"N", "/", "A">>, <<"4", "3", "1">>)]
Page_noDate == [table |-> TRUE, cells |-> Row(<<"T", "B", "D">>, <<"1", "0", "0">>, <<"4", "0", "0">>)]
Page_emptyCell == [table |-> TRUE, cells |-> Row(Text_Jan15, <<>>, <<"4", "3", "1">>)]
Page_fourCells ==
    [table |-> TRUE,
     cells |-> <<Str(<<"1">>), Str(Text_Jan15), Str(<<"H">>), Str(<<"1", "0", "0">>)>>]
Page_twoCells == [table |-> TRUE, cells |-> <<Str(<<"1">>), Str(Text_Jan15)>>]
Page_noTable == [table |-> FALSE, cells |-> <<>>]

Pages ==
    {Page_Jan15, Page_Jan15_other, Page_Jan14, Page_Feb30, Page_Mar1_zero,
     Page_notNumeric, Page_noDate, Page_emptyCell, Page_fourCells, Page_twoCells,
     Page_noTable}

\* every way an attempt can go
Envs ==
    [fails : {"launch", "goto", "filter", "none"}, page : Pages,
     closeOk : BOOLEAN, cleanupOk : BOOLEAN]

\* the attempts explored under the orchestrator: a browser that does not
\* start, a page without a usable date, and pages showing a round
RunEnvs ==
    {[fails |-> "launch", page |-> Page_noTable, closeOk |-> TRUE, cleanupOk |-> TRUE]}
    \cup [fails : {"none"},
          page : {Page_Jan15, Page_Jan15_other, Page_Jan14, Page_Mar1_zero, Page_noDate},
          closeOk : {TRUE}, cleanupOk : {TRUE}]

NoCall == [fn |-> "none"]

\* no run has ended in Done yet
NoDate == Undefined

-----------------------------------------------------------------------------
(* controller (runMonitor), scrapeHealthcareRound and writeStoredData as     *)
(* steps.  A step runs the code from one await to the next.                  *)

Active == {"ReadPrior", "Attempt", "Backoff", "Notify", "Mkdir", "WriteTemp",
           "Rename", "Cleanup"}

Ended == {"Done", "Aborted", "Killed"}

\* logError(lastError, `Scraping attempt k/retries failed`)
AttemptFailed(k, cause) ==
    <<"logError: Scraping attempt 1/3 failed: ", "logError: Scraping attempt 2/3 failed: ",
      "logError: Scraping attempt 3/3 failed: ">>[k] \o cause

\* logError(lastError, `All retries scraping attempts failed`)
AllAttemptsFailed(cause) == "logError: All 3 scraping attempts failed: " \o cause

\* the catch block of runMonitor: log and reject
runMonitor_catch(logged) ==
    /\ pc' = "Aborted"
    /\ log' = logged \o <<"logError: Unexpected error in monitor orchestration">>

writeFailed_swallowed(cause) ==
    /\ pc' = "Done"
    /\ log' = log \o <<cause,
                       "logError: Error writing stored data - existing data preserved",
                       "logError: Failed to update storage after detecting change">>

\* the catch blocks of writeStoredData and of runMonitor's step 5
writeFailed(cause) ==
    runMonitor_catch(log \o <<cause,
                              "logError: Error writing stored data - existing data preserved",
                              "logError: Failed to update storage after detecting change">>)

\* step 1: readStoredData settles; the retry loop starts
ReadPrior ==
    /\ pc = "ReadPrior"
    /\ \E ioError \in BOOLEAN :
          LET r == readStoredData(file, ioError)
          IN  IF r.raised
              THEN /\ runMonitor_catch(log \o <<"call: readStoredData">>)
                   /\ UNCHANGED <<previousData, attempt>>
              ELSE /\ previousData' = r.value
                   /\ log' = log \o <<"call: readStoredData">> \o r.logged
                   /\ pc' = "Attempt"
                   /\ attempt' = 1
    /\ UNCHANGED <<engine, envs, file, tmp, dir, run, fileAtStart, currentData,
                   comparisonResult, sleeps, lastError, browserOpen, stderr, notifyOutcome, call, writers, doneDate>>

runMonitor_afterScrape_noLogChange(data, logged) ==
    IF data.t = "null"
    THEN /\ currentData' = data
         /\ comparisonResult' = comparisonResult
         /\ runMonitor_catch(
               logged \o <<"logError: Failed to retrieve current healthcare round data">>)
    ELSE LET c == compareData(previousData, data)
         IN  /\ currentData' = data
             /\ comparisonResult' = c
             /\ IF c.threw THEN runMonitor_catch(logged)
                ELSE IF c.hasChanged
                THEN pc' = "Notify" /\ log' = logged
                ELSE pc' = "Done" /\ log' = logged \o <<"logNoChange">>

runMonitor_afterScrape_noNullCheck(data, logged) ==
    LET c == compareData(previousData, data)
    IN  /\ currentData' = data
        /\ comparisonResult' = c
        /\ IF c.threw THEN runMonitor_catch(logged)
           ELSE IF c.hasChanged
           THEN pc' = "Notify" /\ log' = logged \o <<"logChange">>
           ELSE pc' = "Done" /\ log' = logged \o <<"logNoChange">>

\* steps 2 to 4 of runMonitor, reached when the scraper returns: on null log
\* and throw; otherwise compare, then log and start the notification, or log
\* no change
runMonitor_afterScrape(data, logged) ==
    IF data.t = "null"
    THEN /\ currentData' = data
         /\ comparisonResult' = comparisonResult
         /\ runMonitor_catch(
               logged \o <<"logError: Failed to retrieve current healthcare round data">>)
    ELSE LET c == compareData(previousData, data)
         IN  /\ currentData' = data
             /\ comparisonResult' = c
             /\ IF c.threw THEN runMonitor_catch(logged)
                ELSE IF c.hasChanged
                THEN pc' = "Notify" /\ log' = logged \o <<"logChange">>
                ELSE pc' = "Done" /\ log' = logged \o <<"logNoChange">>

scrapeHealthcareRound_exhausted_throws(logged, cause) ==
    /\ currentData' = currentData
    /\ comparisonResult' = comparisonResult
    /\ runMonitor_catch(logged \o <<AllAttemptsFailed(cause)>>)

\* after the loop of scrapeHealthcareRound: log the last failure, return null
scrapeHealthcareRound_exhausted(logged, cause) ==
    runMonitor_afterScrape(Null, logged \o <<AllAttemptsFailed(cause)>>)

scrapeHealthcareRound_next_unbounded(logged, cause) ==
    /\ attempt' = attempt
    /\ pc' = "Attempt"
    /\ log' = logged
    /\ UNCHANGED <<currentData, comparisonResult>>

\* attempt++ and the condition of the loop of scrapeHealthcareRound
scrapeHealthcareRound_next(logged, cause) ==
    /\ attempt' = attempt + 1
    /\ IF attempt + 1 <= retries
       THEN /\ pc' = "Attempt"
            /\ log' = logged
            /\ UNCHANGED <<currentData, comparisonResult>>
       ELSE scrapeHealthcareRound_exhausted(logged, cause)

ShouldSleep_always(k) == k <= retries

\* if (attempt < config.retries): wait before retrying
ShouldSleep(k) == k < retries

\* one attemptScrape settles
Attempt ==
    /\ pc = "Attempt"
    /\ \E env \in envs :
          LET r == attemptScrape(env)
              called == log \o <<"call: attemptScrape">>
          IN  /\ browserOpen' = browserOpen + (IF r.leaked THEN 1 ELSE 0)
              /\ stderr' = stderr \o (IF r.reported THEN <<"Failed to close browser">>
                                                     ELSE <<>>)
              /\ IF r.ok
                 THEN /\ runMonitor_afterScrape(r.data, called)
                      /\ UNCHANGED <<attempt, lastError>>
                 ELSE /\ lastError' = r.error
                      /\ IF ShouldSleep(attempt)
                         THEN /\ pc' = "Backoff"
                              /\ log' = called \o <<AttemptFailed(attempt, r.error)>>
                              /\ UNCHANGED <<attempt, currentData, comparisonResult>>
                         ELSE scrapeHealthcareRound_next(
                                 called \o <<AttemptFailed(attempt, r.error)>>, r.error)
    /\ UNCHANGED <<engine, envs, file, tmp, dir, run, fileAtStart, previousData, sleeps,
                   notifyOutcome, call, writers, doneDate>>

RECURSIVE Pow2(_)
Pow2(n) == IF n = 0 THEN 1 ELSE 2 * Pow2(n - 1)

Backoff_offByOne ==
    /\ pc = "Backoff"
    /\ sleeps' = Append(sleeps, retryDelay * Pow2(attempt))
    /\ scrapeHealthcareRound_next(log \o <<"setTimeout">>, lastError)
    /\ UNCHANGED <<engine, envs, file, tmp, dir, run, fileAtStart, previousData,
                   lastError, browserOpen, stderr, notifyOutcome, call, writers, doneDate>>

\* the backoff timer of retryDelay * 2^(attempt-1) fires; the loop goes on
Backoff ==
    /\ pc = "Backoff"
    /\ sleeps' = Append(sleeps, retryDelay * Pow2(attempt - 1))
    /\ scrapeHealthcareRound_next(log \o <<"setTimeout">>, lastError)
    /\ UNCHANGED <<engine, envs, file, tmp, dir, run, fileAtStart, previousData,
                   lastError, browserOpen, stderr, notifyOutcome, call, writers, doneDate>>

Notify_skipsWrite ==
    /\ pc = "Notify"
    /\ \E outcome \in {"resolved", "resolved with an HTTP error", "rejected"} :
          /\ notifyOutcome' = outcome
          /\ IF outcome = "rejected"
             THEN runMonitor_catch(log \o <<"fetch ntfy.sh">>)
             ELSE /\ pc' = "Done"
                  /\ log' = log \o <<"fetch ntfy.sh">>
    /\ UNCHANGED <<engine, envs, file, tmp, dir, run, fileAtStart, previousData, currentData,
                   comparisonResult, attempt, sleeps, lastError, browserOpen, stderr, call, writers, doneDate>>

\* the fetch to ntfy.sh settles: resolved (whatever the HTTP status) or
\* rejected; on resolution writeStoredData starts
Notify ==
    /\ pc = "Notify"
    /\ \E outcome \in {"resolved", "resolved with an HTTP error", "rejected"} :
          /\ notifyOutcome' = outcome
          /\ IF outcome = "rejected"
             THEN runMonitor_catch(log \o <<"fetch ntfy.sh">>)
             ELSE /\ pc' = "Mkdir"
                  /\ log' = log \o <<"fetch ntfy.sh", "call: writeStoredData", "call: mkdir">>
    /\ UNCHANGED <<engine, envs, file, tmp, dir, run, fileAtStart, previousData, currentData,
                   comparisonResult, attempt, sleeps, lastError, browserOpen, stderr, call, writers, doneDate>>

Mkdir_ignoresFailure ==
    /\ pc = "Mkdir"
    /\ \E ok \in BOOLEAN :
          /\ dir' = (dir \/ ok)
          /\ pc' = "WriteTemp"
          /\ log' = log \o (IF ok THEN <<>> ELSE <<"Failed to create directory">>)
                        \o <<"call: writeFile">>
    /\ UNCHANGED <<engine, envs, file, tmp, run, fileAtStart, previousData, currentData,
                   comparisonResult, attempt, sleeps, lastError, browserOpen, stderr,
                   notifyOutcome, call, writers, doneDate>>

\* mkdir(dir, {recursive: true}) settles
Mkdir ==
    /\ pc = "Mkdir"
    /\ \E ok \in BOOLEAN :
          IF ok
          THEN dir' = TRUE /\ pc' = "WriteTemp" /\ log' = log \o <<"call: writeFile">>
          ELSE dir' = dir /\ writeFailed("Failed to create directory")
    /\ UNCHANGED <<engine, envs, file, tmp, run, fileAtStart, previousData, currentData,
                   comparisonResult, attempt, sleeps, lastError, browserOpen, stderr,
                   notifyOutcome, call, writers, doneDate>>

\* what a location may hold when a write of content to it did not complete
Partial(old, content) ==
    {old} \cup {File(SubSeq(content, 1, k)) : k \in 0..(Len(content) - 1)}

WriteTemp_inPlace ==
    /\ pc = "WriteTemp"
    /\ \E ok \in BOOLEAN :
          IF ok
          THEN /\ file' = File(JSONstringify(currentData))
               /\ tmp' = File(JSONstringify(currentData))
               /\ pc' = "Rename"
               /\ log' = log \o <<"call: rename">>
          ELSE /\ file' \in Partial(file, JSONstringify(currentData))
               /\ tmp' = tmp
               /\ writeFailed("Failed to write to temporary file")
    /\ UNCHANGED <<engine, envs, dir, run, fileAtStart, previousData, currentData,
                   comparisonResult, attempt, sleeps, lastError, browserOpen, stderr,
                   notifyOutcome, call, writers, doneDate>>

\* writeFile(tempPath, content) settles
WriteTemp ==
    /\ pc = "WriteTemp"
    /\ \E ok \in BOOLEAN :
          IF ok
          THEN /\ tmp' = File(JSONstringify(currentData))
               /\ pc' = "Rename"
               /\ log' = log \o <<"call: rename">>
          ELSE /\ tmp' \in Partial(tmp, JSONstringify(currentData))
               /\ writeFailed("Failed to write to temporary file")
    /\ UNCHANGED <<engine, envs, file, dir, run, fileAtStart, previousData, currentData,
                   comparisonResult, attempt, sleeps, lastError, browserOpen, stderr,
                   notifyOutcome, call, writers, doneDate>>

Rename_noReplace ==
    /\ pc = "Rename"
    /\ \E ok \in BOOLEAN :
          IF ok
          THEN /\ file' = (IF file.exists THEN file ELSE tmp)
               /\ tmp' = Absent /\ pc' = "Done" /\ log' = log
          ELSE /\ file' = file /\ tmp' = tmp /\ pc' = "Cleanup"
               /\ log' = log \o <<"call: readFile, unlink">>
    /\ UNCHANGED <<engine, envs, dir, run, fileAtStart, previousData, currentData,
                   comparisonResult, attempt, sleeps, lastError, browserOpen, stderr,
                   notifyOutcome, call, writers, doneDate>>

\* rename(tempPath, dataFilePath) settles; on success runMonitor resolves
Rename ==
    /\ pc = "Rename"
    /\ \E ok \in BOOLEAN :
          IF ok
          THEN file' = tmp /\ tmp' = Absent /\ pc' = "Done" /\ log' = log
          ELSE /\ file' = file /\ tmp' = tmp /\ pc' = "Cleanup"
               /\ log' = log \o <<"call: readFile, unlink">>
    /\ UNCHANGED <<engine, envs, dir, run, fileAtStart, previousData, currentData,
                   comparisonResult, attempt, sleeps, lastError, browserOpen, stderr,
                   notifyOutcome, call, writers, doneDate>>

Cleanup_removesFinal ==
    /\ pc = "Cleanup"
    /\ \E removed \in BOOLEAN : file' = IF removed THEN Absent ELSE file
    /\ writeFailed("Failed to rename temporary file")
    /\ UNCHANGED <<engine, envs, tmp, dir, run, fileAtStart, previousData, currentData,
                   comparisonResult, attempt, sleeps, lastError, browserOpen, stderr,
                   notifyOutcome, call, writers, doneDate>>

\* the cleanup after a failed rename settles (its errors are ignored), and
\* writeStoredData throws
Cleanup ==
    /\ pc = "Cleanup"
    /\ \E removed \in BOOLEAN : tmp' = IF removed THEN Absent ELSE tmp
    /\ writeFailed("Failed to rename temporary file")
    /\ UNCHANGED <<engine, envs, file, dir, run, fileAtStart, previousData, currentData,
                   comparisonResult, attempt, sleeps, lastError, browserOpen, stderr,
                   notifyOutcome, call, writers, doneDate>>

\* the process is killed; a writeFile in progress leaves any prefix behind,
\* a mkdir in progress may or may not have created the directory
Kill ==
    /\ pc \in Active
    /\ pc' = "Killed"
    /\ IF pc = "WriteTemp"
       THEN tmp' \in Partial(tmp, JSONstringify(currentData))
                     \cup {File(JSONstringify(currentData))}
       ELSE tmp' = tmp
    /\ IF pc = "Mkdir" THEN dir' \in {dir, TRUE} ELSE dir' = dir
    /\ UNCHANGED <<engine, envs, file, run, fileAtStart, previousData, currentData,
                   comparisonResult, attempt, sleeps, lastError, browserOpen, stderr,
                   notifyOutcome, log, call, writers, doneDate>>

\* the scheduler starts the next run once the previous one has ended
StartRun ==
    /\ pc \in Ended
    /\ run < MaxRuns
    /\ run' = run + 1
    /\ pc' = "ReadPrior"
    /\ fileAtStart' = file
    /\ previousData' = Undefined
    /\ currentData' = Undefined
    /\ comparisonResult' = Undefined
    /\ attempt' = 0
    /\ sleeps' = <<>>
    /\ lastError' = "null"
    /\ browserOpen' = 0
    /\ stderr' = <<>>
    /\ notifyOutcome' = "none"
    /\ log' = <<>>
    /\ doneDate' = IF pc = "Done" THEN currentData.date
                   ELSE IF currentData.t = "object" /\ currentData.date # doneDate
                   THEN NoDate
                   ELSE doneDate
    /\ UNCHANGED <<engine, envs, file, tmp, dir, call, writers>>

Init ==
    /\ engine \in Engines
    /\ envs = RunEnvs
    /\ file \in InitialFiles
    /\ tmp = Absent
    /\ dir \in BOOLEAN
    /\ file.exists => dir
    /\ pc = "ReadPrior"
    /\ run = 1
    /\ fileAtStart = file
    /\ previousData = Undefined
    /\ currentData = Undefined
    /\ comparisonResult = Undefined
    /\ attempt = 0
    /\ sleeps = <<>>
    /\ lastError = "null"
    /\ browserOpen = 0
    /\ stderr = <<>>
    /\ notifyOutcome = "none"
    /\ log = <<>>
    /\ call = NoCall
    /\ writers = <<>>
    /\ doneDate = NoDate

Next ==
    \/ ReadPrior
    \/ Attempt
    \/ Backoff
    \/ Notify
    \/ Mkdir
    \/ WriteTemp
    \/ Rename
    \/ Cleanup
    \/ Kill
    \/ StartRun

Spec == Init /\ [][Next]_vars

\* one run of runMonitor whose process is not killed and in which every
\* pending call settles in the end
NextRun ==
    \/ ReadPrior
    \/ Attempt
    \/ Backoff
    \/ Notify
    \/ Mkdir
    \/ WriteTemp
    \/ Rename
    \/ Cleanup

SpecRun == Init /\ [][NextRun]_vars /\ WF_vars(NextRun)

-----------------------------------------------------------------------------
(* Calls of the pure functions on their own *)

Idle ==
    /\ envs = {}
    /\ file = Absent
    /\ tmp = Absent
    /\ dir = TRUE
    /\ pc = "idle"
    /\ run = 0
    /\ fileAtStart = Absent
    /\ previousData = Undefined
    /\ currentData = Undefined
    /\ comparisonResult = Undefined
    /\ attempt = 0
    /\ sleeps = <<>>
    /\ lastError = "null"
    /\ browserOpen = 0
    /\ stderr = <<>>
    /\ notifyOutcome = "none"
    /\ log = <<>>
    /\ writers = <<>>
    /\ doneDate = NoDate

DateValues == {Str(Jan14), Str(Jan15), Str(Feb30), Str(<<>>), Undefined}
InvitationsValues == {Num(100), Num(150), Num(0), Halves(3), Str(<<"1", "0", "0">>)}
CrsScoreValues == {Num(400), Num(410), Num(0 - 1), Undefined}

Records ==
    {Obj(d, i, c) : d \in DateValues, i \in InvitationsValues, c \in CrsScoreValues}

InitCompare ==
    /\ Idle
    /\ engine \in Engines
    /\ call \in {[fn |-> "compareData", previous |-> p, current |-> c,
                  done |-> FALSE, result |-> Undefined] :
                 p \in Records \cup {Null}, c \in Records \cup {Null, Undefined}}

CallCompareData ==
    /\ call.fn = "compareData"
    /\ ~call.done
    /\ call' = [call EXCEPT !.done = TRUE,
                            !.result = compareData(call.previous, call.current)]
    /\ UNCHANGED runVars

NextCompare == CallCompareData

SpecCompare == InitCompare /\ [][NextCompare]_vars

\* what the final location may hold when readStoredData is called: nothing,
\* an empty file, text that is not JSON, JSON scalars, every record of
\* Records and every cut-off prefix of a well-formed entry
StoredFiles ==
    {Absent, File(<<>>), File(<<Junk>>), File(<<Null>>), File(<<Num(5)>>),
     File(<<Str(Jan15)>>)}
    \cup {File(JSONstringify(r)) : r \in Records}
    \cup Partial(Absent, JSONstringify(Obj(Str(Jan15), Num(100), Num(400))))

InitRead ==
    /\ Idle
    /\ engine \in Engines
    /\ call \in {[fn |-> "readStoredData", stored |-> f, ioError |-> e,
                  done |-> FALSE, result |-> Undefined] :
                 f \in StoredFiles, e \in BOOLEAN}

CallReadStoredData ==
    /\ call.fn = "readStoredData"
    /\ ~call.done
    /\ call' = [call EXCEPT !.done = TRUE,
                            !.result = readStoredData(call.stored, call.ioError)]
    /\ UNCHANGED runVars

NextRead == CallReadStoredData

SpecRead == InitRead /\ [][NextRead]_vars

\* scrapeHealthcareRound on its own, every way an attempt can go: nothing
\* stored before, so that a returned entry is one runMonitor reports
InitScrape ==
    /\ engine \in Engines
    /\ envs = Envs
    /\ file = Absent
    /\ tmp = Absent
    /\ dir = TRUE
    /\ pc = "Attempt"
    /\ run = 1
    /\ fileAtStart = Absent
    /\ previousData = Null
    /\ currentData = Undefined
    /\ comparisonResult = Undefined
    /\ attempt = 1
    /\ sleeps = <<>>
    /\ lastError = "null"
    /\ browserOpen = 0
    /\ stderr = <<>>
    /\ notifyOutcome = "none"
    /\ log = <<>>
    /\ call = NoCall
    /\ writers = <<>>
    /\ doneDate = NoDate

NextScrape ==
    \/ Attempt
    \/ Backoff

SpecScrape == InitScrape /\ [][NextScrape]_vars

\* texts given to isValidISODate: every YYYY-MM-DD text over a few years,
\* months 00..13 and days at and around the ends of the months, and texts
\* of other shapes
DateYears == {1900, 2000, 2023, 2024}
DateMonths == 0..13
DateDays == {0, 1, 28, 29, 30, 31, 32}

ShapedDateTexts == {IsoText(y, m, d) : y \in DateYears, m \in DateMonths, d \in DateDays}

OtherDateTexts ==
    {<<>>,
     <<"2", "0", "2", "4", "-", "1", "-", "5">>,
     <<"2", "0", "2", "4", "/", "0", "1", "/", "1", "5">>,
     <<"2", "0", "2", "4", "0", "1", "1", "5">>,
     <<"2", "0", "2", "4", "-", "0", "1", "-", "1", "5", "T">>,
     <<" ", "2", "0", "2", "4", "-", "0", "1", "-", "1", "5">>,
     <<"2", "0", "2", "4", "-", "0", "1", "-", "1", "x">>,
     <<"2", "4", "-", "0", "1", "-", "1", "5">>,
     <<"0", "1", "-", "1", "5", "-", "2", "0", "2", "4">>,
     Text_Jan15}

InitDate ==
    /\ Idle
    /\ engine \in Engines
    /\ call \in {[fn |-> "isValidISODate", dateString |-> s, done |-> FALSE,
                  result |-> FALSE] : s \in ShapedDateTexts \cup OtherDateTexts}

CallIsValidISODate ==
    /\ call.fn = "isValidISODate"
    /\ ~call.done
    /\ call' = [call EXCEPT !.done = TRUE, !.result = isValidISODate(call.dateString)]
    /\ UNCHANGED runVars

NextDate == CallIsValidISODate

SpecDate == InitDate /\ [][NextDate]_vars

\* values given to the validators: every record of Records, records with a
\* field of another type or NaN, zero or negative, and values that are not
\* records
ValidationValues ==
    Records
    \cup {Null, Undefined, NaN, Num(0), Num(5), Str(<<>>), Str(Jan15)}
    \cup {Obj(Num(5), Num(100), Num(400)),
          Obj(Null, Num(100), Num(400)),
          Obj(Str(Text_Jan15), Num(100), Num(400)),
          Obj(Str(Jan15), NaN, Num(400)),
          Obj(Str(Jan15), Num(0 - 3), Num(400)),
          Obj(Str(Jan15), Null, Num(400)),
          Obj(Str(Jan15), Num(100), NaN),
          Obj(Str(Jan15), Num(100), Num(0)),
          Obj(Str(Jan15), Num(100), Halves(801)),
          Obj(Str(Jan15), Num(100), Str(<<"4", "0", "0">>))}

InitValidate ==
    /\ Idle
    /\ engine \in Engines
    /\ call \in {[fn |-> f, value |-> v, done |-> FALSE, result |-> Undefined] :
                 f \in {"isValidInvitationData", "validateInvitationData"},
                 v \in ValidationValues}

CallIsValidInvitationData ==
    /\ call.fn = "isValidInvitationData"
    /\ ~call.done
    /\ call' = [call EXCEPT !.done = TRUE, !.result = isValidInvitationData(call.value)]
    /\ UNCHANGED runVars

CallValidateInvitationData ==
    /\ call.fn = "validateInvitationData"
    /\ ~call.done
    /\ call' = [call EXCEPT !.done = TRUE, !.result = validateInvitationData(call.value)]
    /\ UNCHANGED runVars

NextValidate ==
    \/ CallIsValidInvitationData
    \/ CallValidateInvitationData

SpecValidate == InitValidate /\ [][NextValidate]_vars

\* date texts the page may show, "Month D, YYYY": every month, days at and
\* around the ends of the months, two years; and texts that name no date
ShownYears == {2023, 2024}

DayText(d) == IF d < 10 THEN <<DigitChars[d + 1]>> ELSE Pad2(d)

LongText(m, d, y) == <<MonthNames[m], " ">> \o DayText(d) \o <<",", " ">> \o Year4(y)

ShownDates ==
    {[m |-> m, d |-> d, y |-> y, text |-> LongText(m, d, y)] :
        m \in 1..12, d \in DateDays, y \in ShownYears}
    \cup {[m |-> 0, d |-> 0, y |-> 2024, text |-> t] :
             t \in {<<>>, <<"T", "B", "D">>, <<"January">>, <<"January", " ", "2", "0", "2", "4">>}}

InitParseDate ==
    /\ Idle
    /\ engine \in Engines
    /\ call \in {[fn |-> "parseDateToISO", shown |-> s, done |-> FALSE,
                  result |-> Undefined] : s \in ShownDates}

CallParseDateToISO ==
    /\ call.fn = "parseDateToISO"
    /\ ~call.done
    /\ call' = [call EXCEPT !.done = TRUE, !.result = parseDateToISO(call.shown.text)]
    /\ UNCHANGED runVars

NextParseDate == CallParseDateToISO

SpecParseDate == InitParseDate /\ [][NextParseDate]_vars

\* the entries of Records that pass isValidInvitationData
ValidRecords == {r \in Records : isValidInvitationData(r)}

\* writeStoredData on its own: every valid entry, written over everything
\* the final location may hold, with or without a temporary file left behind
InitWrite ==
    /\ engine \in Engines
    /\ envs = {}
    /\ file \in StoredFiles
    /\ tmp \in {Absent, File(<<LBrace>>)}
    /\ dir \in BOOLEAN
    /\ (file.exists \/ tmp.exists) => dir
    /\ pc = "Mkdir"
    /\ run = 1
    /\ fileAtStart = file
    /\ previousData = Undefined
    /\ currentData \in ValidRecords
    /\ comparisonResult = Undefined
    /\ attempt = 0
    /\ sleeps = <<>>
    /\ lastError = "null"
    /\ browserOpen = 0
    /\ stderr = <<>>
    /\ notifyOutcome = "none"
    /\ log = <<"call: writeStoredData", "call: mkdir">>
    /\ call = NoCall
    /\ writers = <<>>
    /\ doneDate = NoDate

NextWrite ==
    \/ Mkdir
    \/ WriteTemp
    \/ Rename
    \/ Cleanup

SpecWrite == InitWrite /\ [][NextWrite]_vars

-----------------------------------------------------------------------------
(* Several writeStoredData calls at once on one dataFilePath.  Each call     *)
(* computes the same tempPath.  writeFile is an open that creates or         *)
(* truncates the file, then the writing through the handle, then the close;  *)
(* a handle follows its file when the file is renamed or unlinked.           *)

Writers == 1..NumWriters

ConcurrentEntries ==
    {Obj(Str(Jan15), Num(150), Num(410)), Obj(Str(Jan14), Num(100), Num(400))}

\* content written at offset 0 of a file holding old
Overlay(old, content) ==
    File(content \o SubSeq(old.content, Len(content) + 1, Len(old.content)))

\* the file a handle is on moves from tempPath to dataFilePath, and the
\* file that was at dataFilePath is gone
FollowRename(handle) ==
    IF handle = "tmp" THEN "final" ELSE IF handle = "final" THEN "gone" ELSE handle

\* the file at tempPath is gone
FollowUnlink(handle) == IF handle = "tmp" THEN "gone" ELSE handle

W_Mkdir(w) ==
    /\ writers[w].pc = "Mkdir"
    /\ \E ok \in BOOLEAN :
          /\ dir' = (dir \/ ok)
          /\ writers' = [writers EXCEPT ![w].pc = IF ok THEN "Open" ELSE "Failed"]
    /\ UNCHANGED <<file, tmp, runVarsButStore, call>>

\* writeFile(tempPath, content) opens tempPath: created, or truncated
W_Open(w) ==
    /\ writers[w].pc = "Open"
    /\ \E ok \in BOOLEAN :
          IF ok
          THEN /\ tmp' = File(<<>>)
               /\ writers' = [writers EXCEPT ![w].pc = "Write", ![w].handle = "tmp"]
          ELSE /\ tmp' = tmp
               /\ writers' = [writers EXCEPT ![w].pc = "Failed"]
    /\ UNCHANGED <<file, dir, runVarsButStore, call>>

\* writeFile writes the content through its handle and closes it; a failed
\* write leaves a prefix of the content
W_Write(w) ==
    /\ writers[w].pc = "Write"
    /\ \E ok \in BOOLEAN :
          LET content == JSONstringify(writers[w].data)
              written == IF ok THEN {content}
                         ELSE {SubSeq(content, 1, k) : k \in 0..(Len(content) - 1)}
          IN  /\ \E c \in written :
                    /\ tmp' = IF writers[w].handle = "tmp" THEN Overlay(tmp, c) ELSE tmp
                    /\ file' = IF writers[w].handle = "final" THEN Overlay(file, c) ELSE file
              /\ writers' = [writers EXCEPT ![w].pc = IF ok THEN "Rename" ELSE "Failed",
                                            ![w].handle = "none"]
    /\ UNCHANGED <<dir, runVarsButStore, call>>

\* rename(tempPath, dataFilePath): fails when there is no file at tempPath
W_Rename(w) ==
    /\ writers[w].pc = "Rename"
    /\ \E ok \in {tmp.exists, FALSE} :
          IF ok
          THEN /\ file' = tmp
               /\ tmp' = Absent
               /\ writers' = [v \in Writers |->
                                IF v = w THEN [writers[v] EXCEPT !.pc = "Done"]
                                ELSE [writers[v] EXCEPT !.handle = FollowRename(@)]]
          ELSE /\ writers' = [writers EXCEPT ![w].pc = "Cleanup"]
               /\ UNCHANGED <<file, tmp>>
    /\ UNCHANGED <<dir, runVarsButStore, call>>

\* the cleanup after a failed rename: readFile(tempPath), then unlink
W_Cleanup(w) ==
    /\ writers[w].pc = "Cleanup"
    /\ \E removed \in {tmp.exists, FALSE} :
          IF removed
          THEN /\ tmp' = Absent
               /\ writers' = [v \in Writers |->
                                IF v = w THEN [writers[v] EXCEPT !.pc = "Failed"]
                                ELSE [writers[v] EXCEPT !.handle = FollowUnlink(@)]]
          ELSE /\ tmp' = tmp
               /\ writers' = [writers EXCEPT ![w].pc = "Failed"]
    /\ UNCHANGED <<file, dir, runVarsButStore, call>>

InitConcurrent ==
    /\ engine \in Engines
    /\ envs = {}
    /\ file \in {Absent, File(JSONstringify(Obj(Str(Jan14), Num(200), Num(420))))}
    /\ tmp = Absent
    /\ dir = file.exists
    /\ pc = "idle"
    /\ run = 0
    /\ fileAtStart = file
    /\ previousData = Undefined
    /\ currentData = Undefined
    /\ comparisonResult = Undefined
    /\ attempt = 0
    /\ sleeps = <<>>
    /\ lastError = "null"
    /\ browserOpen = 0
    /\ stderr = <<>>
    /\ notifyOutcome = "none"
    /\ log = <<>>
    /\ call = NoCall
    /\ writers \in [Writers -> [pc : {"Mkdir"}, data : ConcurrentEntries, handle : {"none"}]]
    /\ doneDate = NoDate

NextConcurrent ==
    \/ \E w \in Writers : W_Mkdir(w)
    \/ \E w \in Writers : W_Open(w)
    \/ \E w \in Writers : W_Write(w)
    \/ \E w \in Writers : W_Rename(w)
    \/ \E w \in Writers : W_Cleanup(w)

SpecConcurrent == InitConcurrent /\ [][NextConcurrent]_vars

-----------------------------------------------------------------------------
(* Properties *)

Logged(event) == \E i \in 1..Len(log) : log[i] = event

\* every occurrence of `later` in the log has an occurrence of `earlier` before it
Precedes(earlier, later) ==
    \A i \in 1..Len(log) : log[i] = later => \E j \in 1..(i - 1) : log[j] = earlier

\* the comparison of this run returned changed = true
Changed == "hasChanged" \in DOMAIN comparisonResult /\ comparisonResult.hasChanged

WriteFailureLogged == Logged("logError: Error writing stored data - existing data preserved")

\* C1: in a run whose comparison yields changed = true, a rejected fetch to
\* ntfy.sh does not abort the run and does not skip persistence: the run that
\* has ended did call writeStoredData, and did not end Aborted without it.
C1_NotifierFailureDoesNotSkipPersistence ==
    (pc \in {"Done", "Aborted"} /\ Changed /\ notifyOutcome = "rejected")
        => Logged("call: writeStoredData")

\* C2: a run that ends in failure (Aborted) leaves the final location holding
\* exactly what it held when the run started.
C2_FailedRunLeavesStoreUntouched ==
    pc = "Aborted" => file = fileAtStart

\* a run that got as far as a failed rename, over an existing file, and aborted
C2_Witness ==
    /\ pc = "Aborted"
    /\ Logged("Failed to rename temporary file")
    /\ fileAtStart.exists
    /\ file = fileAtStart

\* C3: whenever the process is killed or a step of writeStoredData fails or
\* succeeds, the final location holds the complete content it had when the
\* run started or the complete serialization of the new entry, and it only
\* ever changes by the rename of a completely written temporary file.
C3_WriteIsAtomicUnderCrashes ==
    /\ [](\/ file = fileAtStart
          \/ currentData.t = "object" /\ file = File(JSONstringify(currentData)))
    /\ [][file' # file =>
             /\ pc = "Rename"
             /\ tmp = File(JSONstringify(currentData))
             /\ file' = tmp]_vars

\* the process was killed while the temporary file was half written, over an
\* existing final file
C3_Witness ==
    /\ pc = "Killed"
    /\ fileAtStart.exists
    /\ file = fileAtStart
    /\ tmp.exists
    /\ tmp.content # <<>>
    /\ Len(tmp.content) < Len(JSONstringify(currentData))
    /\ Logged("call: writeStoredData")

\* C4: a run whose prior entry is absent or has another date than the
\* acquired entry, and whose notification and write succeed, notifies, ends
\* in Done, and a read of the store afterwards returns the acquired entry.
C4_ChangePersistedAndReadBack ==
    (/\ pc \in {"Done", "Aborted"}
     /\ currentData.t = "object"
     /\ previousData = Null \/ previousData.date # currentData.date
     /\ notifyOutcome \in {"resolved", "resolved with an HTTP error"}
     /\ ~WriteFailureLogged)
        => /\ pc = "Done"
           /\ Precedes("logChange", "fetch ntfy.sh")
           /\ Logged("fetch ntfy.sh")
           /\ readStoredData(file, FALSE) = Returned(currentData, <<>>)

\* prior entry of January 14, acquired entry of January 15, run Done
C4_Witness ==
    /\ pc = "Done"
    /\ previousData = Obj(Str(Jan14), Num(100), Num(400))
    /\ currentData = Obj(Str(Jan15), Num(3500), Num(431))
    /\ notifyOutcome = "resolved"
    /\ readStoredData(file, FALSE).value = currentData

\* C5: a run whose prior entry has the date of the acquired entry logs no
\* change and ends in Done without a notification attempt and without a call
\* of writeStoredData, and a read afterwards returns the prior entry; the
\* final location changes only in runs whose comparison yields changed = true.
C5_SameDateMeansNoNotifyNoWrite ==
    /\ []((/\ pc \in {"Done", "Aborted"}
           /\ currentData.t = "object"
           /\ previousData.t = "object"
           /\ previousData.date = currentData.date)
             => /\ pc = "Done"
                /\ Logged("logNoChange")
                /\ ~Logged("logChange")
                /\ ~Logged("fetch ntfy.sh")
                /\ ~Logged("call: writeStoredData")
                /\ notifyOutcome = "none"
                /\ file = fileAtStart
                /\ readStoredData(file, FALSE).value = previousData)
    /\ [][file' # file => Changed]_vars

\* same date, other counts: the run is Done and the file is the old one
C5_Witness ==
    /\ pc = "Done"
    /\ previousData = Obj(Str(Jan15), Num(100), Num(400))
    /\ currentData = Obj(Str(Jan15), Num(9999), Num(999))
    /\ file = File(JSONstringify(previousData))

\* C6: in a run whose comparison yields changed = true, the change is logged
\* before the notification attempt and the notification attempt comes before
\* the call of writeStoredData; the notification has been attempted in every
\* such run that got past it, whatever the write does afterwards.
C6_LogThenNotifyThenWrite ==
    /\ Changed /\ pc # "Killed" => Logged("logChange")
    /\ Precedes("logChange", "fetch ntfy.sh")
    /\ Precedes("fetch ntfy.sh", "call: writeStoredData")
    /\ (Changed /\ pc \in {"Mkdir", "WriteTemp", "Rename", "Cleanup", "Done", "Aborted"})
          => Logged("fetch ntfy.sh")
    /\ Logged("fetch ntfy.sh") => Changed

\* a run that logged the change, notified, called writeStoredData and then
\* aborted on the failing write
C6_Witness ==
    /\ pc = "Aborted"
    /\ Changed
    /\ Logged("logChange")
    /\ Logged("fetch ntfy.sh")
    /\ Logged("call: writeStoredData")
    /\ WriteFailureLogged

\* both inputs of the call are valid entries (previous may be null)
ValidCompareInputs ==
    /\ isValidInvitationData(call.current)
    /\ call.previous = Null \/ isValidInvitationData(call.previous)

\* C7: for a valid current entry and a previous one that is valid or absent,
\* compareData returns its inputs unchanged, and hasChanged is true exactly
\* when previous is absent or the dates differ, whatever the counts and scores.
C7_CompareIsByDateOnly ==
    (call.done /\ ValidCompareInputs)
        => /\ ~call.result.threw
           /\ call.result.previous = call.previous
           /\ call.result.current = call.current
           /\ call.result.hasChanged
                 <=> (call.previous = Null \/ call.previous.date # call.current.date)

\* two valid entries of the same date with other counts compared as unchanged
C7_Witness ==
    /\ call.done
    /\ call.previous = Obj(Str(Jan15), Num(100), Num(400))
    /\ call.current = Obj(Str(Jan15), Num(150), Num(410))
    /\ ~call.result.threw
    /\ ~call.result.hasChanged

\* C8: compareData throws ('Comparison failed...') whenever current is no
\* valid entry or a present previous is no valid entry; for no such input
\* does it return an outcome.
C8_CompareThrowsOnInvalidEntry ==
    (call.done /\ ~ValidCompareInputs) => call.result.threw

\* C9: readStoredData returns null and logs whenever the stored text is not
\* JSON, misses a field or decodes to a value that is no valid entry, and
\* what it returns otherwise is a valid entry.
C9_ReadReturnsOnlyValidEntries ==
    (call.done /\ call.stored.exists /\ ~call.ioError)
        => LET parsed == JSONparse(call.stored.content)
           IN  /\ ~call.result.raised
               /\ IF parsed.syntaxError \/ ~isValidInvitationData(parsed.value)
                  THEN call.result.value = Null /\ call.result.logged # <<>>
                  ELSE call.result.value = parsed.value

\* C10: readStoredData never throws: whatever the final location holds (no
\* file, an unreadable file, text that is not JSON, JSON that is no record, an
\* entry) it returns null or a record with a date and numeric counts, and it
\* returns null when there is no file.
C10_ReadNeverRaises ==
    call.done
        => /\ ~call.result.raised
           /\ \/ call.result.value = Null
              \/ /\ call.result.value.t = "object"
                 /\ ~Falsy(call.result.value.date)
                 /\ TypeOf(call.result.value.invitations) = "number"
                 /\ TypeOf(call.result.value.crsScore) = "number"
           /\ ~call.stored.exists => call.result.value = Null

\* the stored text is the JSON null: the property access throws inside the
\* try block and the call still returns null
C10_Witness ==
    /\ call.done
    /\ call.stored = File(<<Null>>)
    /\ ~call.result.raised
    /\ call.result.value = Null
    /\ call.result.logged = <<"logError: Error reading stored data">>

\* C11: no value that fails isValidInvitationData flows into comparison or
\* persistence: whenever the scraper has handed an entry to runMonitor, or
\* readStoredData has handed it a prior entry, or an entry has been passed to
\* writeStoredData, that entry has a valid YYYY-MM-DD calendar date and a
\* strictly positive integer invitation count and score.
C11_OnlyValidEntriesFlow ==
    /\ previousData.t = "object" => isValidInvitationData(previousData)
    /\ currentData.t = "object" => isValidInvitationData(currentData)
    /\ (Logged("call: writeStoredData") \/ file # fileAtStart)
          => isValidInvitationData(currentData)

\* what an attempt can throw, and what it can return
Causes == {attemptScrape(env).error : env \in {e \in Envs : ~attemptScrape(e).ok}}
Entries == {attemptScrape(env).data : env \in {e \in Envs : attemptScrape(e).ok}}

Count(event) == Len(SelectSeq(log, LAMBDA e : e = event))

\* the log of scrapeHealthcareRound up to the k-th call of attemptScrape:
\* each earlier attempt called, logged as failed with its number, slept after
FailedBefore(k) ==
    \A i \in 1..(k - 1) :
       /\ log[3 * i - 2] = "call: attemptScrape"
       /\ log[3 * i - 1] \in {AttemptFailed(i, cause) : cause \in Causes}
       /\ log[3 * i] = "setTimeout"

\* C12: when scrapeHealthcareRound returns an entry, it does so on some
\* attempt k <= retries: exactly k calls of attemptScrape were made, the entry
\* is one an attempt returned, attempts 1..k-1 were each logged as failed with
\* their number and then slept after, the i-th sleep lasting
\* retryDelay * 2^(i-1), and nothing follows the k-th call but the caller's
\* own log entry.
C12_SuccessOnAttemptK ==
    pc = "Notify" =>
       /\ attempt \in 1..retries
       /\ currentData \in Entries
       /\ Count("call: attemptScrape") = attempt
       /\ Len(sleeps) = attempt - 1
       /\ \A i \in 1..(attempt - 1) : sleeps[i] = retryDelay * Pow2(i - 1)
       /\ Len(log) = 3 * attempt - 1
       /\ FailedBefore(attempt)
       /\ log[3 * attempt - 2] = "call: attemptScrape"
       /\ log[3 * attempt - 1] = "logChange"

C12_Witness ==
    /\ pc = "Notify"
    /\ attempt = retries
    /\ sleeps = <<retryDelay, 2 * retryDelay>>
    /\ currentData = Obj(Str(Jan15), Num(3500), Num(431))

\* scrapeHealthcareRound has run out of attempts
Exhausted == Logged(AllAttemptsFailed(lastError))

\* C13: attemptScrape is never called more than retries times; when the
\* retries-th attempt has failed the scraper is exhausted at once, after
\* exactly retries calls and exactly retries - 1 sleeps of
\* retryDelay * 2^(i-1), and neither a sleep nor a call follows that failure.
C13_ExhaustedAfterNAttempts ==
    /\ Count("call: attemptScrape") <= retries
    /\ (\E cause \in Causes : Logged(AttemptFailed(retries, cause))) => Exhausted
    /\ Exhausted =>
          /\ Count("call: attemptScrape") = retries
          /\ Count("setTimeout") = retries - 1
          /\ Len(sleeps) = retries - 1
          /\ \A i \in 1..(retries - 1) : sleeps[i] = retryDelay * Pow2(i - 1)
          /\ FailedBefore(retries)
          /\ log[3 * retries - 2] = "call: attemptScrape"
          /\ log[3 * retries - 1] = AttemptFailed(retries, lastError)
          /\ log[3 * retries] = AllAttemptsFailed(lastError)
          /\ \A i \in (3 * retries)..Len(log) : log[i] \notin {"setTimeout", "call: attemptScrape"}
          /\ pc \notin {"Attempt", "Backoff"}

C13_Witness ==
    /\ Exhausted
    /\ sleeps = <<retryDelay, 2 * retryDelay>>
    /\ lastError = "Filter input not found or not interactable"
    /\ Logged(AttemptFailed(1, "Failed to initialize Playwright browser"))

\* runMonitor took the branch of a scraper that returned null
ReturnedNull ==
    /\ currentData = Null
    /\ Logged("logError: Failed to retrieve current healthcare round data")

\* C14 as stated: scrapeHealthcareRound never throws, and when its attempts
\* are used up what it returns is a value that carries the cause of the last
\* failure.
C14_ExhaustedOutcomeCarriesCause ==
    /\ pc = "Aborted" => Exhausted
    /\ Exhausted =>
          /\ Logged("logError: Failed to retrieve current healthcare round data")
          /\ "cause" \in DOMAIN currentData
          /\ currentData.cause = lastError

\* C14 amended: scrapeHealthcareRound never throws: a failed attempt is caught
\* in the loop, and when the attempts are used up it returns null, a value
\* that carries nothing; the cause of the last failure is only logged, with
\* 'All 3 scraping attempts failed', before the return.
C14_ExhaustedReturnsNullAndLogsCause ==
    /\ pc = "Aborted" => Exhausted
    /\ Exhausted =>
          /\ ReturnedNull
          /\ "cause" \notin DOMAIN currentData
          /\ log[3 * retries - 1] = AttemptFailed(retries, lastError)
          /\ log[3 * retries] = AllAttemptsFailed(lastError)

C14_Witness ==
    /\ Exhausted
    /\ ReturnedNull
    /\ lastError = "Network error navigating"

\* C15: when the scraper is exhausted the run is Aborted (runMonitor
\* rejects): compareData was not called, no fetch to ntfy.sh was started,
\* writeStoredData was not called, and the store is as the run found it.
C15_ExhaustedRunAborts ==
    Exhausted =>
       /\ pc = "Aborted"
       /\ ReturnedNull
       /\ comparisonResult = Undefined
       /\ ~Logged("logChange") /\ ~Logged("logNoChange")
       /\ notifyOutcome = "none" /\ ~Logged("fetch ntfy.sh")
       /\ ~Logged("call: writeStoredData") /\ ~Logged("call: mkdir")
       /\ file = fileAtStart
       /\ log[Len(log)] = "logError: Unexpected error in monitor orchestration"

C15_Witness ==
    /\ Exhausted
    /\ pc = "Aborted"
    /\ run = 1
    /\ previousData = Obj(Str(Jan14), Num(100), Num(400))

\* C16: when writeStoredData has failed, the run is one whose comparison
\* returned changed = true and it is Aborted (runMonitor rejects, its last
\* log entries being those of the failed update); logChange and the fetch to
\* ntfy.sh both came before the failure of the write.
C16_WriteFailureRejectsAfterLogAndNotify ==
    WriteFailureLogged =>
       /\ Changed
       /\ pc = "Aborted"
       /\ Len(log) >= 2
       /\ log[Len(log) - 1] = "logError: Failed to update storage after detecting change"
       /\ log[Len(log)] = "logError: Unexpected error in monitor orchestration"
       /\ notifyOutcome \in {"resolved", "resolved with an HTTP error"}
       /\ Precedes("logChange", "fetch ntfy.sh")
       /\ Precedes("fetch ntfy.sh", "call: writeStoredData")
       /\ Precedes("call: writeStoredData",
                   "logError: Error writing stored data - existing data preserved")

C16_Witness ==
    /\ WriteFailureLogged
    /\ pc = "Aborted"
    /\ notifyOutcome = "resolved"
    /\ Logged("Failed to write to temporary file")

\* the catch block of runMonitor has run: the promise is rejected
Rejected == Logged("logError: Unexpected error in monitor orchestration")

\* C17: a run that is Done (runMonitor resolved) was not rejected and either
\* found no change and left the store alone, or found a change and the final
\* location holds the new entry, which readStoredData returns; a run that is
\* Aborted was rejected; and a run that is Done or Aborted takes no further
\* step: the only thing that follows is the next run, on the same store.
C17_SuccessOnlyFromDone ==
    /\ [](pc = "Done" =>
             /\ ~Rejected
             /\ \/ ~Changed /\ Logged("logNoChange") /\ file = fileAtStart
                \/ /\ Changed
                   /\ file = File(JSONstringify(currentData))
                   /\ readStoredData(file, FALSE) = Returned(currentData, <<>>))
    /\ [](pc = "Aborted" =>
             /\ Rejected
             /\ log[Len(log)] = "logError: Unexpected error in monitor orchestration")
    /\ [][(pc = "Done" \/ pc = "Aborted") =>
             /\ pc' = "ReadPrior"
             /\ run' = run + 1
             /\ UNCHANGED <<file, tmp, dir>>]_vars

C17_Witness ==
    /\ pc = "Done"
    /\ run = 2
    /\ Changed
    /\ file # fileAtStart
    /\ notifyOutcome = "resolved with an HTTP error"

\* C18: writeStoredData calls mkdir, then writeFile on the temporary file,
\* then rename, each only after the one before it succeeded, and throws when
\* any of them fails: after a failed mkdir no writeFile was called; after a
\* failed writeFile no rename was called; after a failed rename the cleanup
\* of the temporary file was started before the throw; and in all three cases
\* the final location holds what it held, so that readStoredData returns what
\* it returned before.
C18_WriteStepsInOrder ==
    /\ Precedes("call: writeStoredData", "call: mkdir")
    /\ Precedes("call: mkdir", "call: writeFile")
    /\ Precedes("call: writeFile", "call: rename")
    /\ Precedes("call: rename", "call: readFile, unlink")
    /\ (Logged("call: mkdir") /\ pc \notin {"Done", "Killed"}) => file = fileAtStart
    /\ Logged("Failed to create directory") =>
          /\ WriteFailureLogged /\ pc = "Aborted"
          /\ ~Logged("call: writeFile") /\ ~Logged("call: rename")
    /\ Logged("Failed to write to temporary file") =>
          /\ WriteFailureLogged /\ pc = "Aborted"
          /\ ~Logged("call: rename")
          /\ file = fileAtStart
          /\ readStoredData(file, FALSE) = readStoredData(fileAtStart, FALSE)
    /\ Logged("Failed to rename temporary file") =>
          /\ WriteFailureLogged /\ pc = "Aborted"
          /\ Precedes("call: readFile, unlink", "Failed to rename temporary file")
          /\ file = fileAtStart
          /\ readStoredData(file, FALSE) = readStoredData(fileAtStart, FALSE)
    /\ WriteFailureLogged =>
          \/ Logged("Failed to create directory")
          \/ Logged("Failed to write to temporary file")
          \/ Logged("Failed to rename temporary file")

C18_Witness ==
    /\ Logged("Failed to rename temporary file")
    /\ pc = "Aborted"
    /\ fileAtStart = File(JSONstringify(Obj(Str(Jan14), Num(100), Num(400))))
    /\ tmp = File(JSONstringify(currentData))

\* C19: whatever the final location held before (nothing, text that is not
\* JSON, a cut-off entry, another entry), once writeStoredData has succeeded
\* for a valid entry, readStoredData returns an entry equal to it in date,
\* invitations and crsScore, and logs nothing.
C19_WriteThenReadRoundTrip ==
    pc = "Done" =>
       LET r == readStoredData(file, FALSE)
       IN  /\ ~r.raised
           /\ r.logged = <<>>
           /\ r.value.t = "object"
           /\ r.value.date = currentData.date
           /\ r.value.invitations = currentData.invitations
           /\ r.value.crsScore = currentData.crsScore

C19_Witness ==
    /\ pc = "Done"
    /\ fileAtStart = File(<<Junk>>)
    /\ currentData = Obj(Str(Jan15), Num(150), Num(410))
    /\ readStoredData(file, FALSE).value = currentData

\* what the final location holds is whole: what it held at the start, or the
\* complete content of one of the writes
WholeContents ==
    {fileAtStart} \cup {File(JSONstringify(writers[w].data)) : w \in Writers}

\* C20: while several writeStoredData calls run at once on one dataFilePath,
\* the final location never holds a half-written file: at every instant it
\* holds what it held before or the complete content of one of the writes.
C20_ConcurrentWritesNeverExposePartial == file \in WholeContents

\* C21 as stated: when an attempt starts, while a backoff sleep lasts and
\* when scrapeHealthcareRound has returned, no browser opened by an earlier
\* attempt is still open.
C21_NoSessionLeftOpen ==
    pc \in {"Attempt", "Backoff", "Notify", "Done", "Aborted"} => browserOpen = 0

\* C21 amended: an attempt calls browser.close() on every path on which a
\* browser was launched, so a browser stays open only when the
\* browser.close() of the catch block itself fails, which attemptScrape
\* reports with console.error and ignores: the browsers still open are as
\* many as those reports, never more than the attempts that failed, and an
\* attempt that returns an entry leaves none of its own.
C21_SessionOpenOnlyWhenCloseFails ==
    /\ [](browserOpen = Len(stderr))
    /\ [](browserOpen <= Len(SelectSeq(log, LAMBDA e :
                                \E k \in 1..retries, cause \in Causes :
                                   e = AttemptFailed(k, cause))))
    /\ [][(pc = "Attempt" /\ pc' = "Notify") => browserOpen' = browserOpen]_vars

C21_Witness ==
    /\ pc = "Backoff"
    /\ attempt = 2
    /\ browserOpen = 1
    /\ stderr = <<"Failed to close browser">>
    /\ lastError = "browser.close failed"

\* the Gregorian calendar over DateYears, written out
LeapYears == {2000, 2024}

RealDateTexts ==
    {IsoText(y, m, d) : y \in DateYears, m \in 1..12, d \in 1..28}
    \cup {IsoText(y, m, d) : y \in DateYears, m \in 1..12 \ {2}, d \in {29, 30}}
    \cup {IsoText(y, m, 31) : y \in DateYears, m \in {1, 3, 5, 7, 8, 10, 12}}
    \cup {IsoText(y, 2, 29) : y \in LeapYears}

\* C22: isValidISODate(s) is true exactly when s is four digits, a hyphen,
\* two digits, a hyphen, two digits and names a real Gregorian date: a month
\* of 1..12, a day within that month, February 29 only in a leap year;
\* whichever way the runtime parses a day past the end of its month.
C22_IsValidISODateIffRealDate ==
    (call.fn = "isValidISODate" /\ call.done) =>
       (call.result <=> call.dateString \in RealDateTexts)

C22_Witness ==
    /\ call.fn = "isValidISODate"
    /\ call.done
    /\ engine = "rollover"
    /\ call.dateString = IsoText(2023, 2, 29)
    /\ ~call.result

\* the numbers among ValidationValues that are integers greater than zero
PositiveIntegers == {Num(n) : n \in 1..500}

\* C23: isValidInvitationData(v) is true exactly when v is a record whose
\* date is a string that isValidISODate accepts and whose invitations and
\* crsScore are numbers that are integers greater than zero; it is false for
\* null, undefined, values that are not records, and for a zero, negative,
\* fractional, NaN or non-number count or score.
C23_IsValidInvitationDataIffWellFormed ==
    (call.fn = "isValidInvitationData" /\ call.done) =>
       (call.result <=>
           /\ call.value.t = "object"
           /\ call.value.date.t = "string"
           /\ isValidISODate(call.value.date.chars)
           /\ call.value.invitations \in PositiveIntegers
           /\ call.value.crsScore \in PositiveIntegers)

C23_Witness ==
    /\ call.fn = "isValidInvitationData"
    /\ call.done
    /\ call.value = Obj(Str(Jan15), Num(100), Num(0))
    /\ call.result = FALSE

\* the field of v that fails first, in the order date, invitations, crsScore
FirstFailingField(v) ==
    IF v.t # "object" THEN "not an object"
    ELSE IF ~(v.date.t = "string" /\ isValidISODate(v.date.chars)) THEN "date"
    ELSE IF v.invitations \notin PositiveIntegers THEN "invitations"
    ELSE IF v.crsScore \notin PositiveIntegers THEN "crsScore"
    ELSE "none"

\* the field an error message of validateInvitationData names
FieldNamed(message) ==
    IF message = "InvitationData must be an object" THEN "not an object"
    ELSE IF message \in {"InvitationData.date must be a string",
                         "InvitationData.date must be in ISO 8601 format (YYYY-MM-DD)"}
    THEN "date"
    ELSE IF message \in {"InvitationData.invitations must be a number",
                         "InvitationData.invitations must be a positive integer"}
    THEN "invitations"
    ELSE IF message \in {"InvitationData.crsScore must be a number",
                         "InvitationData.crsScore must be a positive integer"}
    THEN "crsScore"
    ELSE "unknown"

\* C24: validateInvitationData(v) throws exactly when isValidInvitationData(v)
\* is false, and the message of the error names the first field that fails,
\* in the order date, invitations, crsScore, or says that v is not an object.
C24_ValidateAgreesWithIsValid ==
    (call.fn = "validateInvitationData" /\ call.done) =>
       /\ call.result.threw <=> ~isValidInvitationData(call.value)
       /\ call.result.threw =>
             FieldNamed(call.result.message) = FirstFailingField(call.value)
       /\ ~call.result.threw => FirstFailingField(call.value) = "none"

C24_Witness ==
    /\ call.fn = "validateInvitationData"
    /\ call.done
    /\ call.value = Obj(Str(Jan15), Num(0), Undefined)
    /\ call.result = Throws("InvitationData.invitations must be a positive integer")

\* the file holds JSON text of an entry that isValidInvitationData accepts
HoldsValidEntry(f) ==
    /\ f.exists
    /\ ~JSONparse(f.content).syntaxError
    /\ isValidInvitationData(JSONparse(f.content).value)

\* C25: in a run that found the final location holding something other than
\* a valid entry, once readStoredData has returned the prior entry is null;
\* and if the scraper then returns a valid entry, the comparison says
\* changed, logChange is called, and the run is not Done before the final
\* location holds the acquired entry.
C25_CorruptStoreIsNothingKnown ==
    (/\ fileAtStart.exists
     /\ ~HoldsValidEntry(fileAtStart)
     /\ previousData # Undefined)
       => /\ previousData = Null
          /\ (currentData.t = "object" /\ isValidInvitationData(currentData)) =>
                /\ Changed
                /\ Logged("logChange")
                /\ pc = "Done" => file = File(JSONstringify(currentData))

\* C26: parseDateToISO fails for a text that names no real calendar date,
\* 'February 30, 2024' included, so that the attempt fails; and for a text
\* that names a real date it returns the YYYY-MM-DD form of exactly that
\* date, never of another one.
C26_ShownDateIsNeverCoerced ==
    (call.fn = "parseDateToISO" /\ call.done) =>
       IF IsoText(call.shown.y, call.shown.m, call.shown.d) \in RealDateTexts
       THEN call.result = Succeeded(Str(IsoText(call.shown.y, call.shown.m, call.shown.d)))
       ELSE ~call.result.ok

\* C27: a run whose pending calls all settle reaches Done or Aborted, having
\* called attemptScrape at most retries times, started at most one fetch to
\* ntfy.sh and called writeStoredData at most once (each write step tried at
\* most once), whichever of those calls fail.
C27_EveryRunTerminates ==
    /\ <>(pc \in {"Done", "Aborted"})
    /\ [](/\ Count("call: attemptScrape") <= retries
          /\ Len(sleeps) <= retries - 1
          /\ Count("fetch ntfy.sh") <= 1
          /\ Count("call: writeStoredData") <= 1
          /\ Count("call: mkdir") <= 1
          /\ Count("call: writeFile") <= 1
          /\ Count("call: rename") <= 1)
    /\ [][(pc = "Done" \/ pc = "Aborted") => FALSE]_vars

C27_Witness ==
    /\ pc = "Done"
    /\ Count("call: attemptScrape") = retries
    /\ Count("fetch ntfy.sh") = 1
    /\ Count("call: rename") = 1
    /\ file = File(JSONstringify(currentData))

\* an earlier run ended in Done for the date this run has been shown, and no
\* run in between was shown another date
ShownDoneDate ==
    /\ doneDate # NoDate
    /\ currentData.t = "object"
    /\ currentData.date = doneDate

\* C28 as stated: once a run has ended in Done and the page keeps showing
\* the same date, no later run starts a fetch to ntfy.sh or calls
\* writeStoredData.
C28_NoRenotificationAfterDone ==
    ShownDoneDate => (~Logged("fetch ntfy.sh") /\ ~Logged("call: writeStoredData"))

\* C28 amended: once a run has ended in Done and the page keeps showing the
\* same date, a later run in which readStoredData could read the file starts
\* no fetch to ntfy.sh, calls no writeStoredData and leaves the store as it
\* found it; a later run in which reading the file failed takes the prior
\* entry as null and notifies and writes again.
C28_NoRenotificationWhileStoreReadable ==
    /\ (ShownDoneDate /\ ~Logged("logError: Error reading stored data")) =>
          /\ previousData.t = "object"
          /\ previousData.date = doneDate
          /\ ~Logged("logChange")
          /\ ~Logged("fetch ntfy.sh")
          /\ ~Logged("call: writeStoredData")
          /\ file = fileAtStart
    /\ (ShownDoneDate /\ Logged("fetch ntfy.sh")) =>
          /\ Logged("logError: Error reading stored data")
          /\ previousData = Null

C28_Witness ==
    /\ run = 2
    /\ pc = "Done"
    /\ doneDate = Str(Jan15)
    /\ ShownDoneDate
    /\ Logged("logNoChange")
    /\ currentData.invitations # previousData.invitations

====
